---- MODULE Spec2Model ----
(***************************************************************************)
(* Model of the Solana wallet CLI core (src/src/transaction/transfer.ts):  *)
(* TransferManager.sendSOL as a pipeline of awaited network round trips,   *)
(* TransferManager.estimateTransactionFee, and the WalletManager           *)
(* constructor; and of its front end (src/src/index.ts): the interactive   *)
(* session and the send command.  The RPC node, the SDK's                  *)
(* sendAndConfirmTransaction and the user are the environment: every       *)
(* answer they can give is a nondeterministic choice.                      *)
(***************************************************************************)
EXTENDS Integers, Sequences, FiniteSets, TLC

VARIABLES
  pc,                \* position of the sendSOL call (the await it is suspended on)
  pending,           \* network requests of this call that are in flight
  calls,             \* history: the requests issued by this call, in order
  amount,            \* the amount the caller means, in lamports (amountSOL = amount / 10^9)
  lamports,          \* line 27: amountSOL * LAMPORTS_PER_SOL, a double
  senderAccountInfo, \* line 35: answer of getAccountInfo
  senderBalance,     \* line 48: answer of getBalance, integer lamports
  feeValue,          \* line 156: fee.value answered by getFeeForMessage
  estBlockhash,      \* line 153: blockhash attached by estimateTransactionFee
  estimatedFee,      \* line 54: the estimate, a double in SOL
  totalRequired,     \* line 61: a double in lamports
  txBlockhash,       \* line 84: transaction.recentBlockhash of the submitted transaction
  signed,            \* the transaction has been signed with fromKeypair
  submitCount,       \* times the client handed the transaction to sendAndConfirmTransaction
  attempts,          \* attempts the collaborator has used for the submitted transaction
  collab,            \* what the collaborator finally reported for the submission
  outcome,           \* result of the sendSOL call
  keyInput,          \* WalletManager constructor: the privateKey argument
  keypair,           \* WalletManager.keypair (NoKeypair when none was constructed)
  ctor,              \* result of the last constructor call
  spc,               \* index.ts: position of the front end (the await it is suspended on)
  mode,              \* index.ts: the command that runs ("interactive" is `start`)
  wallet,            \* index.ts line 23: state.wallet (NoKeypair when null)
  choice,            \* index.ts line 196: answer.action of the last menu prompt
  validation,        \* the last validateForTransactions call: the answer and the result
  recipient,         \* the recipient text that was accepted
  amountIn,          \* the amount the front end holds: a number, or NotANumber
  proc,              \* two concurrent sendSOL calls: the state of each
  chainBalance       \* two concurrent sendSOL calls: the sender's balance on chain

vars == <<pc, pending, calls, amount, lamports, senderAccountInfo, senderBalance,
          feeValue, estBlockhash, estimatedFee, totalRequired, txBlockhash, signed,
          submitCount, attempts, collab, outcome, keyInput, keypair, ctor,
          spc, mode, wallet, choice, validation, recipient, amountIn,
          proc, chainBalance>>

transferVars == <<pc, pending, calls, amount, lamports, senderAccountInfo,
                  senderBalance, feeValue, estBlockhash, estimatedFee, totalRequired,
                  txBlockhash, signed, submitCount, attempts, collab, outcome>>

walletVars == <<keyInput, keypair, ctor>>

sessionVars == <<spc, mode, wallet, choice, validation, recipient, amountIn>>

raceVars == <<proc, chainBalance>>

(***************************************************************************)
(* Bounds of the model.                                                    *)
(***************************************************************************)
MaxAmount == 2
MaxBalance == 8
MaxBlockhash == 2
MaxLogLines == 2

(***************************************************************************)
(* Doubles.  A double near a whole number of lamports is [i, u]: the value *)
(* i + u * 2^-49.  All values of the model are below 256, where this is    *)
(* exact for IEEE-754 binary64.  NaN is the double that is no number.      *)
(***************************************************************************)
Dbl(i, u) == [i |-> i, u |-> u, nan |-> FALSE]

NaN == [i |-> 0, u |-> 0, nan |-> TRUE]

\* The number parseFloat yields for a text that is no number (index.ts line 265),
\* among the amounts, which are given in lamports.
NotANumber == -99

\* fl(fl(n / 10^9) * 10^9) - n in units of 2^-49, for 0 <= n < 128 (binary64,
\* round to nearest even); the double nearest the decimal n * 10^-9 is the same
\* as fl(n / 10^9), so this also is amountSOL * LAMPORTS_PER_SOL.
RoundTripErr(n) ==
  CASE n = 15 -> -1
    [] n = 30 -> -2
    [] n \in {60, 63} -> -4
    [] n = 61 -> 4
    [] n \in {120, 126} -> -8
    [] n \in {121, 122, 127} -> 8
    [] OTHER -> 0

\* The unit in the last place, in units of 2^-49, of the binade that holds a
\* value whose integer part (rounded toward zero) is m.
Ulp(m) ==
  IF m < 16 THEN 1
  ELSE IF m < 32 THEN 2
  ELSE IF m < 64 THEN 4
  ELSE IF m < 128 THEN 8
  ELSE 16

\* u rounded to a multiple of w, ties to the even multiple.
RoundUnits(u, w) ==
  LET q == u \div w
      r == u % w
  IN  IF 2 * r < w THEN q * w
      ELSE IF 2 * r > w THEN (q + 1) * w
      ELSE IF q % 2 = 0 THEN q * w ELSE (q + 1) * w

\* x + y of two doubles.
DblAdd(x, y) ==
  LET i == x.i + y.i
      u == x.u + y.u
      m == IF u < 0 THEN i - 1 ELSE i
  IN  IF x.nan \/ y.nan THEN NaN ELSE Dbl(i, RoundUnits(u, Ulp(m)))

\* b < x for an integer b and a double x; false when x is NaN.
IntLessDbl(b, x) == ~x.nan /\ (b < x.i \/ (b = x.i /\ x.u > 0))

\* amountSOL * LAMPORTS_PER_SOL where amountSOL is the double nearest a / 10^9.
SolToLamports(a) == IF a = NotANumber THEN NaN ELSE Dbl(a, RoundTripErr(a))

\* fee.value / LAMPORTS_PER_SOL (line 161): the double nearest v / 10^9, named by v.
LamportsToSol(v) == [nearest |-> v]

\* estimatedFee * LAMPORTS_PER_SOL (line 61).
SolTimesLamports(sol) == Dbl(sol.nearest, RoundTripErr(sol.nearest))

(***************************************************************************)
(* What the network collaborator can answer.                               *)
(***************************************************************************)
SystemProgramId == "system"
TokenProgramId == "token"
Programs == {SystemProgramId, TokenProgramId}

\* PublicKey.toBase58 of the program ids of the model.
ToBase58(program) ==
  IF program = SystemProgramId
    THEN "11111111111111111111111111111111"
    ELSE "TokenkegQfeZyiNwAJbNbGKPFXCWuBvf9Ss623VQ5DA"

NullInfo == [exists |-> FALSE, owner |-> SystemProgramId]
AccountInfos == {NullInfo} \cup {[exists |-> TRUE, owner |-> o] : o \in Programs}

Amounts == 1..MaxAmount
\* Answers of getBalance: the small balances, and those around the fee 61, whose
\* round trip through SOL is not exact.
Balances == (0..MaxBalance) \cup (60..(62 + MaxAmount))
Blockhashes == 1..MaxBlockhash
NoBlockhash == 0
FeeUnavailable == -1                       \* fee.value = null
FeeNotAsked == -2                          \* getFeeForMessage has not answered yet
FeeValues == {FeeUnavailable, 0, 5, 61}    \* answers of getFeeForMessage

LogLines == {"", "Program failed"}
LogSeqs == UNION {[1..n -> LogLines] : n \in 0..MaxLogLines}

(***************************************************************************)
(* Results of a sendSOL call.                                              *)
(***************************************************************************)
NoSignature == [amount |-> 0, blockhash |-> NoBlockhash]
\* The signature of the transaction that was signed: it names what was bound.
SignatureOf(a, h) == [amount |-> a, blockhash |-> h]

NoOutcome ==
  [kind |-> "none", name |-> "", signature |-> NoSignature, reason |-> "",
   logs |-> "", have |-> 0, need |-> Dbl(0, 0)]

Returned(sig) == [NoOutcome EXCEPT !.kind = "returned", !.signature = sig]

Thrown(name, reason) ==
  [NoOutcome EXCEPT !.kind = "thrown", !.name = name, !.reason = reason]

\* Lines 42-44.
NonSignerError(info) == Thrown("InvalidSenderAccount", ToBase58(info.owner))

\* Lines 63-69: the message names the balance and the required total, both in SOL.
InsufficientBalanceError(balance, required) ==
  [Thrown("InsufficientBalance", "") EXCEPT !.have = balance, !.need = required]

\* logs.join("\n")
RECURSIVE JoinLines(_)
JoinLines(logs) ==
  IF Len(logs) = 0 THEN ""
  ELSE IF Len(logs) = 1 THEN logs[1]
  ELSE logs[1] \o "\n" \o JoinLines(Tail(logs))

\* Lines 106-110: logs?.join("\n") || "No logs available"
LogsText(logs) == IF JoinLines(logs) = "" THEN "No logs available" ELSE JoinLines(logs)

TransactionFailedError(message, logs) ==
  [Thrown("TransactionFailed", message) EXCEPT !.logs = LogsText(logs)]

\* Errors that the SDK or the RPC transport raise.
SendTransactionError == "SendTransactionError"
TimeoutError == "TransactionExpiredTimeoutError"
NetworkError == "NetworkError"

\* What the collaborator reported for the submitted transaction.
NoCollab == [result |-> "none", error |-> "", reason |-> "", logs |-> <<>>,
             cached |-> FALSE]
Collab(result, error, reason, logs, cached) ==
  [result |-> result, error |-> error, reason |-> reason, logs |-> logs,
   cached |-> cached]

\* The option handed to the collaborator on line 97.
maxRetries == 3

(***************************************************************************)
(* Initial state: no sendSOL call has started, no wallet was constructed.  *)
(***************************************************************************)
NoKeypair == [present |-> FALSE, from |-> "none"]
NoInput == [family |-> "none", ones |-> 0, tail |-> <<>>, elems |-> 0,
            integers |-> FALSE, consistent |-> FALSE]
NoCtor == "none"

TransferInit ==
  /\ pc = "idle"
  /\ pending = {}
  /\ calls = <<>>
  /\ amount = 0
  /\ lamports = Dbl(0, 0)
  /\ senderAccountInfo = NullInfo
  /\ senderBalance = 0
  /\ feeValue = FeeNotAsked
  /\ estBlockhash = NoBlockhash
  /\ estimatedFee = LamportsToSol(0)
  /\ totalRequired = Dbl(0, 0)
  /\ txBlockhash = NoBlockhash
  /\ signed = FALSE
  /\ submitCount = 0
  /\ attempts = 0
  /\ collab = NoCollab
  /\ outcome = NoOutcome

WalletInit ==
  /\ keyInput = NoInput
  /\ keypair = NoKeypair
  /\ ctor = NoCtor

\* index.ts lines 22-25: no wallet; no command runs yet.
NoValidation == [info |-> NullInfo, result |-> "none"]
NoRecipient == NoInput

SessionInit ==
  /\ spc = "start"
  /\ mode = "none"
  /\ wallet = NoKeypair
  /\ choice = "none"
  /\ validation = NoValidation
  /\ recipient = NoRecipient
  /\ amountIn = 0

\* A sendSOL call that has not started, as one of two concurrent calls.
IdleProc ==
  [pc |-> "idle", amount |-> 0, lamports |-> Dbl(0, 0), balance |-> 0,
   feeValue |-> FeeNotAsked, totalRequired |-> Dbl(0, 0), result |-> "none"]

Procs == {1, 2}

RaceInit ==
  /\ proc = [p \in Procs |-> IdleProc]
  /\ chainBalance = 0

Init == TransferInit /\ WalletInit /\ SessionInit /\ RaceInit

(***************************************************************************)
(* sendSOL, one action per resumption of the async function: the awaited   *)
(* response arrives, the code runs to its next await (or to its end).      *)
(***************************************************************************)
\* The response to req has arrived and the call is suspended on it.
Arrived(req) == pc = req /\ req \in pending

\* The code consumed the response to req and awaits next.
AwaitNext(req, next) ==
  /\ pending' = (pending \ {req}) \cup {next}
  /\ calls' = Append(calls, next)
  /\ pc' = next

\* Mutant of Finish: the result is produced but the call is not left.
FinishWithoutLeaving(req, result) ==
  /\ pending' = pending
  /\ calls' = calls
  /\ pc' = pc
  /\ outcome' = result

\* The code consumed the response to req and the call ends with result.
Finish(req, result) ==
  /\ pending' = pending \ {req}
  /\ calls' = calls
  /\ pc' = "done"
  /\ outcome' = result

\* Mutant of IsNonSigner: the null check is inverted.
IsNonSignerInvertedNullCheck(info) ==
  ~info.exists /\ ToBase58(info.owner) /= "11111111111111111111111111111111"

\* Lines 38-41: the sender account exists and is not owned by the system program.
IsNonSigner(info) ==
  info.exists /\ ToBase58(info.owner) /= "11111111111111111111111111111111"

\* Mutant of FeeToSol: an unavailable fee is replaced by a default fee, not by 0.
FeeToSolWithDefaultFee(v) ==
  IF v /= FeeUnavailable /\ v /= 0 THEN LamportsToSol(v) ELSE LamportsToSol(5)

\* Line 161: fee.value ? fee.value / LAMPORTS_PER_SOL : 0
FeeToSol(v) == IF v /= FeeUnavailable /\ v /= 0 THEN LamportsToSol(v) ELSE LamportsToSol(0)

\* Mutant of TotalRequired: the fee is left out of the required total.
TotalRequiredWithoutFee(lam, fee) == lam

\* Line 61: lamports + estimatedFee * LAMPORTS_PER_SOL
TotalRequired(lam, fee) == DblAdd(lam, SolTimesLamports(fee))

\* Line 62: senderBalance < totalRequired
IsInsufficient(balance, required) == IntLessDbl(balance, required)

\* Mutant of IsSendTransactionError: every caught error is taken for a rejection.
IsAnyError(error) == TRUE

\* Line 103: error instanceof SendTransactionError
IsSendTransactionError(error) == error = SendTransactionError

\* Lines 22-37: the call starts and awaits getAccountInfo.
SendSOLCall(a) ==
  /\ pc = "idle"
  /\ amount' = a
  /\ lamports' = SolToLamports(a)
  /\ pending' = pending \cup {"getAccountInfo"}
  /\ calls' = Append(calls, "getAccountInfo")
  /\ pc' = "getAccountInfo"
  /\ UNCHANGED <<senderAccountInfo, senderBalance, feeValue, estBlockhash,
                 estimatedFee, totalRequired, txBlockhash, signed, submitCount,
                 attempts, collab, outcome>>

\* sendSOL called on its own, with a valid keypair and recipient.
SendSOL(a) ==
  /\ SendSOLCall(a)
  /\ UNCHANGED <<walletVars, sessionVars, raceVars>>

\* Lines 35-50: getAccountInfo answered; refuse a non-signer, else await getBalance.
AccountInfoReply(info) ==
  /\ Arrived("getAccountInfo")
  /\ senderAccountInfo' = info
  /\ IF IsNonSigner(info)
       THEN Finish("getAccountInfo", NonSignerError(info))
       ELSE AwaitNext("getAccountInfo", "getBalance") /\ outcome' = outcome
  /\ UNCHANGED <<amount, lamports, senderBalance, feeValue, estBlockhash,
                 estimatedFee, totalRequired, txBlockhash, signed, submitCount,
                 attempts, collab>>
  /\ UNCHANGED <<walletVars, sessionVars, raceVars>>

\* Lines 48-58 and 143-152: getBalance answered; estimateTransactionFee builds its
\* transaction and awaits getLatestBlockhash.
BalanceReply(b) ==
  /\ Arrived("getBalance")
  /\ senderBalance' = b
  /\ AwaitNext("getBalance", "estimate.getLatestBlockhash")
  /\ UNCHANGED <<amount, lamports, senderAccountInfo, feeValue, estBlockhash,
                 estimatedFee, totalRequired, txBlockhash, signed, submitCount,
                 attempts, collab, outcome>>
  /\ UNCHANGED <<walletVars, sessionVars, raceVars>>

\* Lines 152-159: the blockhash is attached to the estimate's transaction, which is
\* sent to getFeeForMessage.
EstimateBlockhashReply(h) ==
  /\ Arrived("estimate.getLatestBlockhash")
  /\ estBlockhash' = h
  /\ AwaitNext("estimate.getLatestBlockhash", "getFeeForMessage")
  /\ UNCHANGED <<amount, lamports, senderAccountInfo, senderBalance, feeValue,
                 estimatedFee, totalRequired, txBlockhash, signed, submitCount,
                 attempts, collab, outcome>>
  /\ UNCHANGED <<walletVars, sessionVars, raceVars>>

\* Lines 156-161 and 59-83: the fee is answered; the sufficiency check; on success
\* the transfer transaction is created and getLatestBlockhash awaited.
FeeReply(v) ==
  /\ Arrived("getFeeForMessage")
  /\ feeValue' = v
  /\ estimatedFee' = FeeToSol(v)
  /\ totalRequired' = TotalRequired(lamports, FeeToSol(v))
  /\ IF IsInsufficient(senderBalance, TotalRequired(lamports, FeeToSol(v)))
       THEN Finish("getFeeForMessage",
                   InsufficientBalanceError(senderBalance,
                                            TotalRequired(lamports, FeeToSol(v))))
       ELSE AwaitNext("getFeeForMessage", "getLatestBlockhash") /\ outcome' = outcome
  /\ UNCHANGED <<amount, lamports, senderAccountInfo, senderBalance, estBlockhash,
                 txBlockhash, signed, submitCount, attempts, collab>>
  /\ UNCHANGED <<walletVars, sessionVars, raceVars>>

\* Lines 83-99: the blockhash is bound, and the transaction is handed to
\* sendAndConfirmTransaction, which signs it with fromKeypair and sends it.
BlockhashReply(h) ==
  /\ Arrived("getLatestBlockhash")
  /\ txBlockhash' = h
  /\ signed' = TRUE
  /\ submitCount' = submitCount + 1
  /\ attempts' = 0
  /\ AwaitNext("getLatestBlockhash", "sendAndConfirmTransaction")
  /\ UNCHANGED <<amount, lamports, senderAccountInfo, senderBalance, feeValue,
                 estBlockhash, estimatedFee, totalRequired, collab, outcome>>
  /\ UNCHANGED <<walletVars, sessionVars, raceVars>>

\* An awaited query outside the try block fails (the transport gave up): the
\* rejection propagates out of sendSOL.
QueryFails ==
  /\ pc \in {"getAccountInfo", "getBalance", "estimate.getLatestBlockhash",
             "getFeeForMessage", "getLatestBlockhash"}
  /\ Arrived(pc)
  /\ Finish(pc, Thrown(NetworkError, "request failed"))
  /\ UNCHANGED <<amount, lamports, senderAccountInfo, senderBalance, feeValue,
                 estBlockhash, estimatedFee, totalRequired, txBlockhash, signed,
                 submitCount, attempts, collab>>
  /\ UNCHANGED <<walletVars, sessionVars, raceVars>>

\* Mutant of CatchSendError: an error that is no rejection makes the client hand
\* the transaction to the collaborator again.
CatchSendErrorResubmitting(e) ==
  IF IsSendTransactionError(e.error)
    THEN /\ submitCount' = submitCount
         /\ AwaitNext("sendAndConfirmTransaction", "getLogs")
         /\ outcome' = outcome
    ELSE /\ submitCount' = submitCount + 1
         /\ calls' = Append(calls, "sendAndConfirmTransaction")
         /\ UNCHANGED <<pending, pc, outcome>>

\* Lines 102-113: the catch block, for the error e = collab the collaborator threw.
CatchSendError(e) ==
  /\ submitCount' = submitCount
  /\ IF IsSendTransactionError(e.error)
       THEN IF e.cached
              THEN Finish("sendAndConfirmTransaction",
                          TransactionFailedError(e.reason, e.logs))
              ELSE AwaitNext("sendAndConfirmTransaction", "getLogs")
                   /\ outcome' = outcome
       ELSE Finish("sendAndConfirmTransaction", Thrown(e.error, e.reason))

\* The collaborator uses one more attempt and the transaction is still not
\* confirmed; after the last allowed attempt it gives up with a timeout error,
\* which the catch block (lines 102-113) handles.
SendPending ==
  /\ Arrived("sendAndConfirmTransaction")
  /\ attempts < maxRetries
  /\ attempts' = attempts + 1
  /\ IF attempts + 1 = maxRetries
       THEN /\ collab' = Collab("timeout", TimeoutError, "not confirmed", <<>>, FALSE)
            /\ CatchSendError(collab')
       ELSE UNCHANGED <<collab, pending, calls, pc, outcome, submitCount>>
  /\ UNCHANGED <<amount, lamports, senderAccountInfo, senderBalance, feeValue,
                 estBlockhash, estimatedFee, totalRequired, txBlockhash, signed>>
  /\ UNCHANGED <<walletVars, sessionVars, raceVars>>

\* Lines 91-101: the collaborator confirms on this attempt; sendSOL returns the
\* signature.
SendConfirmed ==
  /\ Arrived("sendAndConfirmTransaction")
  /\ attempts < maxRetries
  /\ attempts' = attempts + 1
  /\ collab' = Collab("confirmed", "", "", <<>>, FALSE)
  /\ Finish("sendAndConfirmTransaction", Returned(SignatureOf(amount, txBlockhash)))
  /\ UNCHANGED <<amount, lamports, senderAccountInfo, senderBalance, feeValue,
                 estBlockhash, estimatedFee, totalRequired, txBlockhash, signed,
                 submitCount>>
  /\ UNCHANGED <<walletVars, sessionVars, raceVars>>

\* The collaborator reports an execution failure (a SendTransactionError) with the
\* diagnostic logs; the logs are cached on the error or have to be fetched.
SendRejected(logs, cached) ==
  /\ Arrived("sendAndConfirmTransaction")
  /\ attempts < maxRetries
  /\ attempts' = attempts + 1
  /\ collab' = Collab("rejected", SendTransactionError, "Simulation failed", logs, cached)
  /\ CatchSendError(collab')
  /\ UNCHANGED <<amount, lamports, senderAccountInfo, senderBalance, feeValue,
                 estBlockhash, estimatedFee, totalRequired, txBlockhash, signed>>
  /\ UNCHANGED <<walletVars, sessionVars, raceVars>>

\* The transport fails while the transaction is being sent or confirmed.
SendUnavailable ==
  /\ Arrived("sendAndConfirmTransaction")
  /\ attempts < maxRetries
  /\ attempts' = attempts + 1
  /\ collab' = Collab("unavailable", NetworkError, "request failed", <<>>, FALSE)
  /\ CatchSendError(collab')
  /\ UNCHANGED <<amount, lamports, senderAccountInfo, senderBalance, feeValue,
                 estBlockhash, estimatedFee, totalRequired, txBlockhash, signed>>
  /\ UNCHANGED <<walletVars, sessionVars, raceVars>>

\* Lines 104-110: error.getLogs answered with the logs the collaborator holds.
LogsReply ==
  /\ Arrived("getLogs")
  /\ Finish("getLogs", TransactionFailedError(collab.reason, collab.logs))
  /\ UNCHANGED <<amount, lamports, senderAccountInfo, senderBalance, feeValue,
                 estBlockhash, estimatedFee, totalRequired, txBlockhash, signed,
                 submitCount, attempts, collab>>
  /\ UNCHANGED <<walletVars, sessionVars, raceVars>>

\* Line 104: error.getLogs rejects; the rejection propagates out of the catch block.
LogsFail ==
  /\ Arrived("getLogs")
  /\ Finish("getLogs", Thrown(NetworkError, "request failed"))
  /\ UNCHANGED <<amount, lamports, senderAccountInfo, senderBalance, feeValue,
                 estBlockhash, estimatedFee, totalRequired, txBlockhash, signed,
                 submitCount, attempts, collab>>
  /\ UNCHANGED <<walletVars, sessionVars, raceVars>>

(***************************************************************************)
(* WalletManager: the constructor and isValidPrivateKey.                   *)
(*                                                                         *)
(* A privateKey argument is one of                                         *)
(*   family "base58": `ones` characters '1' followed by the characters of  *)
(*     `tail`, each given by its index in the base-58 alphabet (58 stands  *)
(*     for a character outside the alphabet, such as '0');                 *)
(*   family "json": the text of a JSON array of `elems` elements, or       *)
(*     (elems = -1) of a JSON object; `integers` tells whether every       *)
(*     element is an integer;                                              *)
(*   family "text": a text that is neither.                                *)
(* `consistent` tells whether the SDK's Keypair.fromSecretKey accepts the  *)
(* 64 bytes the argument yields (the public half matches the private       *)
(* half); ed25519 is not computed, both answers are considered.            *)
(***************************************************************************)
SecretKeyLength == 64
MaxTail == 2
InvalidChar == 58
TailChars == {4, 23, 24, InvalidChar}      \* '5', 'Q', 'R', and a non-alphabet character
Tails == UNION {[1..n -> TailChars] : n \in 0..MaxTail}
OnesCounts == {0} \cup ((SecretKeyLength - MaxTail)..(SecretKeyLength + 1))
ElemCounts == {-1, 0} \cup ((SecretKeyLength - 1)..(SecretKeyLength + 1))

KeyInputs ==
  {[family |-> "base58", ones |-> n, tail |-> t, elems |-> 0, integers |-> FALSE,
    consistent |-> c] : n \in OnesCounts, t \in Tails, c \in BOOLEAN}
  \cup
  {[family |-> "json", ones |-> 0, tail |-> <<>>, elems |-> n, integers |-> i,
    consistent |-> c] : n \in ElemCounts, i \in BOOLEAN, c \in BOOLEAN}
  \cup
  {[family |-> "text", ones |-> 0, tail |-> <<>>, elems |-> 0, integers |-> FALSE,
    consistent |-> FALSE]}

\* The number the base-58 digits of tail denote, most significant first.
RECURSIVE TailValue(_)
TailValue(tail) ==
  IF Len(tail) = 0 THEN 0
  ELSE 58 * TailValue(SubSeq(tail, 1, Len(tail) - 1)) + tail[Len(tail)]

\* The number of bytes of the shortest big-endian representation of v.
RECURSIVE ByteLength(_)
ByteLength(v) == IF v = 0 THEN 0 ELSE 1 + ByteLength(v \div 256)

\* bs58.decode (line 230): throws on a character outside the alphabet; every
\* leading '1' is a zero byte, the rest is the base-58 number in bytes.
Bs58Decode(input) ==
  IF input.family = "base58" /\ \A k \in 1..Len(input.tail) : input.tail[k] < 58
    THEN [ok |-> TRUE, length |-> input.ones + ByteLength(TailValue(input.tail))]
    ELSE [ok |-> FALSE, length |-> 0]

\* JSON.parse (line 240): the value of an array or object text; a base-58 text is
\* a JSON number when all its characters are digits, else a syntax error.
JsonParse(input) ==
  IF input.family = "json"
    THEN [ok |-> TRUE, isArray |-> input.elems >= 0, length |-> input.elems]
    ELSE IF /\ input.family = "base58"
            /\ input.ones + Len(input.tail) > 0
            /\ \A k \in 1..Len(input.tail) : input.tail[k] < 9
      THEN [ok |-> TRUE, isArray |-> FALSE, length |-> 0]
      ELSE [ok |-> FALSE, isArray |-> FALSE, length |-> 0]

\* Keypair.fromSecretKey (lines 236, 247) on the bytes the argument yields.
FromSecretKey(input) == input.consistent

\* Lines 229-236: the base-58 attempt.
Base58Attempt(input) ==
  /\ Bs58Decode(input).ok
  /\ Bs58Decode(input).length = SecretKeyLength
  /\ FromSecretKey(input)

\* Lines 238-250: the attempt as an array of numbers.
ArrayAttempt(input) ==
  /\ JsonParse(input).ok
  /\ JsonParse(input).isArray
  /\ JsonParse(input).length = SecretKeyLength
  /\ FromSecretKey(input)

\* Mutant of Construct: the array attempt is not made.
ConstructWithoutFallback(input) ==
  IF Base58Attempt(input) THEN [ok |-> TRUE, keypair |-> [present |-> TRUE, from |-> "base58"]]
  ELSE [ok |-> FALSE, keypair |-> NoKeypair]

\* Lines 227-261: the result of the constructor.
Construct(input) ==
  IF Base58Attempt(input) THEN [ok |-> TRUE, keypair |-> [present |-> TRUE, from |-> "base58"]]
  ELSE IF ArrayAttempt(input) THEN [ok |-> TRUE, keypair |-> [present |-> TRUE, from |-> "array"]]
  ELSE [ok |-> FALSE, keypair |-> NoKeypair]

\* new WalletManager(privateKey)
NewWalletManagerCall(input) ==
  /\ keyInput' = input
  /\ keypair' = Construct(input).keypair
  /\ ctor' = IF Construct(input).ok THEN "constructed" ELSE "InvalidKeyFormat"

\* The constructor called on its own.
NewWalletManager(input) ==
  /\ NewWalletManagerCall(input)
  /\ UNCHANGED <<transferVars, sessionVars, raceVars>>

\* Lines 296-303: WalletManager.isValidPrivateKey(privateKey)
IsValidPrivateKey(input) ==
  /\ keyInput' = input
  /\ keypair' = NoKeypair
  /\ ctor' = IF Construct(input).ok THEN "true" ELSE "false"
  /\ UNCHANGED <<transferVars, sessionVars, raceVars>>

WalletNext ==
  \/ \E input \in KeyInputs : NewWalletManager(input)
  \/ \E input \in KeyInputs : IsValidPrivateKey(input)

WalletSpec == Init /\ [][WalletNext]_vars

Next ==
  \/ \E a \in Amounts : SendSOL(a)
  \/ \E info \in AccountInfos : AccountInfoReply(info)
  \/ \E b \in Balances : BalanceReply(b)
  \/ \E h \in Blockhashes : EstimateBlockhashReply(h)
  \/ \E v \in FeeValues : FeeReply(v)
  \/ \E h \in Blockhashes : BlockhashReply(h)
  \/ QueryFails
  \/ SendPending
  \/ SendConfirmed
  \/ \E logs \in LogSeqs, cached \in BOOLEAN : SendRejected(logs, cached)
  \/ SendUnavailable
  \/ LogsReply
  \/ LogsFail

Spec == Init /\ [][Next]_vars

(***************************************************************************)
(* The front end (src/src/index.ts): the interactive session (mainMenu,    *)
(* importWallet, showBalance, sendSOL) and the send command.  One action   *)
(* per resumption: a prompt is answered or a response arrives, and the     *)
(* code runs to its next await.  A text the user types for a key or an     *)
(* address is a privateKey argument as described above; the empty text is  *)
(* the base-58 text of no characters.                                      *)
(***************************************************************************)
\* The length the SDK's PublicKey constructor (line 344) requires of the decoded bytes.
PublicKeyLength == 32

EmptyText == [family |-> "base58", ones |-> 0, tail |-> <<>>, elems |-> 0,
              integers |-> FALSE, consistent |-> FALSE]

Base58Text(n, t, c) ==
  [family |-> "base58", ones |-> n, tail |-> t, elems |-> 0, integers |-> FALSE,
   consistent |-> c]

\* The key texts of the session: a valid base-58 key, a valid array, a base-58
\* text that the SDK refuses, a text of the wrong length, a text of neither form.
SessionKeyInputs ==
  {Base58Text(SecretKeyLength, <<>>, TRUE),
   Base58Text(SecretKeyLength, <<>>, FALSE),
   Base58Text(SecretKeyLength - 1, <<>>, TRUE),
   [family |-> "json", ones |-> 0, tail |-> <<>>, elems |-> SecretKeyLength,
    integers |-> TRUE, consistent |-> TRUE],
   [family |-> "text", ones |-> 0, tail |-> <<>>, elems |-> 0, integers |-> FALSE,
    consistent |-> FALSE]}

\* The recipient texts: an address, a text one byte short, one with a character
\* outside the alphabet, and a text that is no base-58 at all.
RecipientInputs ==
  {Base58Text(PublicKeyLength, <<>>, FALSE),
   Base58Text(PublicKeyLength - 1, <<>>, FALSE),
   Base58Text(PublicKeyLength - 1, <<InvalidChar>>, FALSE),
   [family |-> "text", ones |-> 0, tail |-> <<>>, elems |-> 0, integers |-> FALSE,
    consistent |-> FALSE]}

\* The numbers the amount prompt (type "number") can hand to validate.
NumberInputs == {NotANumber, -1, 0} \cup Amounts

\* The texts of the -a option.
AmountTexts == {"", "abc", "-0.000000001", "0", "0.000000001", "0.000000002"}

\* parseFloat (line 265), the number given in lamports.
ParseFloat(text) ==
  CASE text = "-0.000000001" -> -1
    [] text = "0" -> 0
    [] text = "0.000000001" -> 1
    [] text = "0.000000002" -> 2
    [] OTHER -> NotANumber

\* What the pipeline is answered while the front end runs it.
SessionBalances == {0, MaxBalance}
SessionFeeValues == {FeeUnavailable, 5}
SessionBlockhashes == {1}
SessionLogSeqs == {<<>>, <<"Program failed">>}

\* Lines 342-349: new PublicKey(address) does not throw.
ValidatePublicKey(text) ==
  Bs58Decode(text).ok /\ Bs58Decode(text).length = PublicKeyLength

\* Line 138: input && input > 0
AcceptsAmount(x) == x /= NotANumber /\ x /= 0 /\ x > 0

\* Line 266: amount <= 0, which is false for NaN.
AmountLeqZero(x) == x /= NotANumber /\ x <= 0

\* Mutant of ValidateForTransactionsThrows: an absent account is refused too.
ValidateForTransactionsThrowsOnAbsent(info) ==
  ~info.exists \/ ToBase58(info.owner) /= "11111111111111111111111111111111"

\* transfer.ts lines 311-320: the account exists and its owner is not the system
\* program.
ValidateForTransactionsThrows(info) ==
  IF info.exists
    THEN ToBase58(info.owner) /= "11111111111111111111111111111111"
    ELSE FALSE

\* Mutant of WalletAfterImportError: the wallet is left as it is.
WalletKeptAfterImportError(w) == w

\* Line 92: state.wallet = null
WalletAfterImportError(w) == NoKeypair

\* Where importWallet returns to: line 178 (the call of line 177, made before any
\* menu choice) ends mainMenu when there is no wallet; otherwise the menu loop.
ImportContinuation(w) ==
  IF choice = "none" /\ ~w.present THEN "returned" ELSE "menu"

callVars == <<pc, calls, amount, lamports, senderAccountInfo, senderBalance,
              feeValue, estBlockhash, estimatedFee, totalRequired, txBlockhash,
              signed, submitCount, attempts, collab, outcome>>

\* Lines 175-177 and 73: `start` runs mainMenu; there is no wallet, so importWallet
\* prompts for the key.
StartInteractive ==
  /\ spc = "start"
  /\ mode' = "interactive"
  /\ spc' = "keyPrompt"
  /\ UNCHANGED <<wallet, choice, validation, recipient, amountIn>>
  /\ UNCHANGED <<transferVars, walletVars, raceVars>>

\* Lines 73-93: the key is entered; the wallet is constructed and its validation
\* awaited, or the constructor throws and the catch block resets the wallet.
KeyEntered(input) ==
  /\ spc = "keyPrompt"
  /\ NewWalletManagerCall(input)
  /\ validation' = NoValidation
  /\ IF Construct(input).ok
       THEN /\ wallet' = Construct(input).keypair
            /\ pending' = pending \cup {"validate.getAccountInfo"}
            /\ spc' = "validating"
       ELSE /\ wallet' = WalletAfterImportError(wallet)
            /\ pending' = pending
            /\ spc' = ImportContinuation(wallet')
  /\ UNCHANGED <<mode, choice, recipient, amountIn>>
  /\ UNCHANGED <<callVars, raceVars>>

\* Lines 86-93 and transfer.ts 309-329: getAccountInfo answered.
ValidationReply(info) ==
  /\ spc = "validating"
  /\ "validate.getAccountInfo" \in pending
  /\ pending' = pending \ {"validate.getAccountInfo"}
  /\ IF ValidateForTransactionsThrows(info)
       THEN /\ validation' = [info |-> info, result |-> "refused"]
            /\ wallet' = WalletAfterImportError(wallet)
       ELSE /\ validation' = [info |-> info, result |-> "passed"]
            /\ wallet' = wallet
  /\ spc' = ImportContinuation(wallet')
  /\ UNCHANGED <<mode, choice, recipient, amountIn>>
  /\ UNCHANGED <<callVars, walletVars, raceVars>>

\* Lines 86-93: the request of validateForTransactions fails.
ValidationFails ==
  /\ spc = "validating"
  /\ "validate.getAccountInfo" \in pending
  /\ pending' = pending \ {"validate.getAccountInfo"}
  /\ validation' = [info |-> NullInfo, result |-> "failed"]
  /\ wallet' = WalletAfterImportError(wallet)
  /\ spc' = ImportContinuation(wallet')
  /\ UNCHANGED <<mode, choice, recipient, amountIn>>
  /\ UNCHANGED <<callVars, walletVars, raceVars>>

MenuActions == {"balance", "send", "switch", "exit"}

\* Lines 184-209, 97-104, 117-122, 73: the menu is answered and the chosen
\* handler runs to its first await.
MenuChoice(c) ==
  /\ spc = "menu"
  /\ choice' = c
  /\ spc' = CASE c = "balance" -> IF wallet.present THEN "showBalance" ELSE "menu"
              [] c = "send" -> IF wallet.present THEN "recipientPrompt" ELSE "menu"
              [] c = "switch" -> "keyPrompt"
              [] c = "exit" -> "exited"
  /\ pending' = IF c = "balance" /\ wallet.present
                  THEN pending \cup {"showBalance.getBalance"}
                  ELSE pending
  /\ UNCHANGED <<mode, wallet, validation, recipient, amountIn>>
  /\ UNCHANGED <<callVars, walletVars, raceVars>>

\* Lines 104-113: getBalance answers or fails; either is printed.
ShowBalanceCompletes ==
  /\ spc = "showBalance"
  /\ "showBalance.getBalance" \in pending
  /\ pending' = pending \ {"showBalance.getBalance"}
  /\ spc' = "menu"
  /\ UNCHANGED <<mode, wallet, choice, validation, recipient, amountIn>>
  /\ UNCHANGED <<callVars, walletVars, raceVars>>

\* Lines 122-133: the recipient prompt; a text that validate refuses is asked again.
RecipientEntered(text) ==
  /\ spc = "recipientPrompt"
  /\ IF ValidatePublicKey(text)
       THEN recipient' = text /\ spc' = "amountPrompt"
       ELSE UNCHANGED <<recipient, spc>>
  /\ UNCHANGED <<mode, wallet, choice, validation, amountIn>>
  /\ UNCHANGED <<transferVars, walletVars, raceVars>>

\* Lines 133-142: the amount prompt.
AmountEntered(x) ==
  /\ spc = "amountPrompt"
  /\ IF AcceptsAmount(x)
       THEN amountIn' = x /\ spc' = "confirmPrompt"
       ELSE UNCHANGED <<amountIn, spc>>
  /\ UNCHANGED <<mode, wallet, choice, validation, recipient>>
  /\ UNCHANGED <<transferVars, walletVars, raceVars>>

\* Lines 142-160: the confirmation; on yes transferManager.sendSOL is called.
ConfirmAnswered(yes) ==
  /\ spc = "confirmPrompt"
  /\ IF yes
       THEN SendSOLCall(amountIn) /\ spc' = "sending"
       ELSE UNCHANGED transferVars /\ spc' = "menu"
  /\ UNCHANGED <<mode, wallet, choice, validation, recipient, amountIn>>
  /\ UNCHANGED <<walletVars, raceVars>>

\* Lines 252-276: the send command, up to its call of transferManager.sendSOL.
SendCommand(key, to, text) ==
  LET missing == key = EmptyText \/ to = EmptyText \/ text = ""
      constructed == ~missing /\ Construct(key).ok
      addressed == constructed /\ ValidatePublicKey(to)
      invoked == addressed /\ ~AmountLeqZero(ParseFloat(text))
  IN  /\ spc = "start"
      /\ mode' = "command"
      /\ IF missing THEN UNCHANGED walletVars ELSE NewWalletManagerCall(key)
      /\ wallet' = IF constructed THEN Construct(key).keypair ELSE wallet
      /\ recipient' = IF constructed THEN to ELSE recipient
      /\ amountIn' = IF addressed THEN ParseFloat(text) ELSE amountIn
      /\ IF invoked
           THEN SendSOLCall(ParseFloat(text)) /\ spc' = "sending"
           ELSE UNCHANGED transferVars /\ spc' = "finished"
      /\ UNCHANGED <<choice, validation, raceVars>>

\* Line 155: the next send has a TransferManager of its own, with no call started.
NewTransferManager ==
  /\ pc' = "idle"
  /\ pending' = {}
  /\ calls' = <<>>
  /\ amount' = 0
  /\ lamports' = Dbl(0, 0)
  /\ senderAccountInfo' = NullInfo
  /\ senderBalance' = 0
  /\ feeValue' = FeeNotAsked
  /\ estBlockhash' = NoBlockhash
  /\ estimatedFee' = LamportsToSol(0)
  /\ totalRequired' = Dbl(0, 0)
  /\ txBlockhash' = NoBlockhash
  /\ signed' = FALSE
  /\ submitCount' = 0
  /\ attempts' = 0
  /\ collab' = NoCollab
  /\ outcome' = NoOutcome

\* Lines 162-172 and 278-288: sendSOL has returned or thrown; the result is
\* printed.  The session goes back to the menu and the TransferManager of line
\* 155 is dropped; the command is over.
SendSOLReturns ==
  /\ spc = "sending"
  /\ pc = "done"
  /\ IF mode = "interactive"
       THEN spc' = "menu" /\ NewTransferManager
       ELSE spc' = "finished" /\ UNCHANGED transferVars
  /\ UNCHANGED <<mode, wallet, choice, validation, recipient, amountIn>>
  /\ UNCHANGED <<walletVars, raceVars>>

\* transfer.ts lines 54 and 143-149: getBalance answered, and the SDK refuses to
\* encode a transfer of an amount that is not a whole number of lamports.
TransferRejectsAmount(b) ==
  /\ Arrived("getBalance")
  /\ lamports.nan \/ lamports.u /= 0
  /\ senderBalance' = b
  /\ Finish("getBalance", Thrown("RangeError", "not an integer"))
  /\ UNCHANGED <<amount, lamports, senderAccountInfo, feeValue, estBlockhash,
                 estimatedFee, totalRequired, txBlockhash, signed, submitCount,
                 attempts, collab>>
  /\ UNCHANGED <<walletVars, sessionVars, raceVars>>

SessionNext ==
  \/ StartInteractive
  \/ \E input \in SessionKeyInputs : KeyEntered(input)
  \/ \E info \in AccountInfos : ValidationReply(info)
  \/ ValidationFails
  \/ \E c \in MenuActions : MenuChoice(c)
  \/ ShowBalanceCompletes
  \/ \E text \in RecipientInputs : RecipientEntered(text)
  \/ \E x \in NumberInputs : AmountEntered(x)
  \/ \E yes \in BOOLEAN : ConfirmAnswered(yes)
  \/ \E key \in SessionKeyInputs \cup {EmptyText},
        to \in RecipientInputs \cup {EmptyText},
        text \in AmountTexts : SendCommand(key, to, text)
  \/ SendSOLReturns
  \/ \E info \in AccountInfos : AccountInfoReply(info)
  \/ \E b \in SessionBalances : BalanceReply(b)
  \/ \E b \in SessionBalances : TransferRejectsAmount(b)
  \/ \E h \in SessionBlockhashes : EstimateBlockhashReply(h)
  \/ \E v \in SessionFeeValues : FeeReply(v)
  \/ \E h \in SessionBlockhashes : BlockhashReply(h)
  \/ QueryFails
  \/ SendPending
  \/ SendConfirmed
  \/ \E logs \in SessionLogSeqs, cached \in BOOLEAN : SendRejected(logs, cached)
  \/ SendUnavailable
  \/ LogsReply
  \/ LogsFail

SessionSpec == Init /\ [][SessionNext]_vars

(***************************************************************************)
(* Two sendSOL calls of one sender that run concurrently (two processes,   *)
(* or two calls of one process, each with a TransferManager of its own).   *)
(* proc[p] is the state of call p: its position, its amount, and what it   *)
(* was answered.  The chain holds the sender's balance: getBalance answers *)
(* it, and a transaction that is processed debits the amount and the fee,  *)
(* or fails when the balance does not cover them.                          *)
(***************************************************************************)
RaceFeeValues == {0, 5}
RaceAccountInfos == AccountInfos

\* Call p moves to position next.
ProcAt(p, next) == [proc[p] EXCEPT !.pc = next]

\* Call p ends with result.
ProcDone(p, result) == [proc[p] EXCEPT !.pc = "done", !.result = result]

\* The sender's account receives b lamports from elsewhere.
AccountFunded(b) ==
  /\ chainBalance = 0
  /\ chainBalance' = b
  /\ UNCHANGED proc
  /\ UNCHANGED <<transferVars, walletVars, sessionVars>>

\* Mutant of RaceSendSOL: a call starts only when no other call is in progress.
RaceSendSOLSerialized(p, a) ==
  /\ proc[p].pc = "idle"
  /\ \A q \in Procs \ {p} : proc[q].pc \in {"idle", "done"}
  /\ proc' = [proc EXCEPT ![p] = [proc[p] EXCEPT !.pc = "getAccountInfo",
                                                  !.amount = a,
                                                  !.lamports = SolToLamports(a)]]
  /\ UNCHANGED chainBalance
  /\ UNCHANGED <<transferVars, walletVars, sessionVars>>

\* Lines 22-37: call p starts and awaits getAccountInfo.
RaceSendSOL(p, a) ==
  /\ proc[p].pc = "idle"
  /\ proc' = [proc EXCEPT ![p] = [proc[p] EXCEPT !.pc = "getAccountInfo",
                                                  !.amount = a,
                                                  !.lamports = SolToLamports(a)]]
  /\ UNCHANGED chainBalance
  /\ UNCHANGED <<transferVars, walletVars, sessionVars>>

\* Lines 35-50.
RaceAccountInfoReply(p, info) ==
  /\ proc[p].pc = "getAccountInfo"
  /\ proc' = [proc EXCEPT ![p] =
                IF IsNonSigner(info) THEN ProcDone(p, "InvalidSenderAccount")
                                     ELSE ProcAt(p, "getBalance")]
  /\ UNCHANGED chainBalance
  /\ UNCHANGED <<transferVars, walletVars, sessionVars>>

\* Lines 48-58 and 143-152: getBalance answers the balance the chain holds now.
RaceBalanceReply(p) ==
  /\ proc[p].pc = "getBalance"
  /\ proc' = [proc EXCEPT ![p] =
                [proc[p] EXCEPT !.pc = "estimate.getLatestBlockhash",
                                !.balance = chainBalance]]
  /\ UNCHANGED chainBalance
  /\ UNCHANGED <<transferVars, walletVars, sessionVars>>

\* Lines 152-159.
RaceEstimateBlockhashReply(p) ==
  /\ proc[p].pc = "estimate.getLatestBlockhash"
  /\ proc' = [proc EXCEPT ![p] = ProcAt(p, "getFeeForMessage")]
  /\ UNCHANGED chainBalance
  /\ UNCHANGED <<transferVars, walletVars, sessionVars>>

\* Lines 156-161 and 59-83: the sufficiency check, on the balance call p has read.
RaceFeeReply(p, v) ==
  LET required == TotalRequired(proc[p].lamports, FeeToSol(v))
      checked == [proc[p] EXCEPT !.feeValue = v, !.totalRequired = required]
  IN  /\ proc[p].pc = "getFeeForMessage"
      /\ proc' = [proc EXCEPT ![p] =
                    IF IsInsufficient(proc[p].balance, required)
                      THEN [checked EXCEPT !.pc = "done",
                                           !.result = "InsufficientBalance"]
                      ELSE [checked EXCEPT !.pc = "getLatestBlockhash"]]
      /\ UNCHANGED chainBalance
      /\ UNCHANGED <<transferVars, walletVars, sessionVars>>

\* Lines 83-99: call p signs and submits its transaction.
RaceBlockhashReply(p) ==
  /\ proc[p].pc = "getLatestBlockhash"
  /\ proc' = [proc EXCEPT ![p] = ProcAt(p, "sendAndConfirmTransaction")]
  /\ UNCHANGED chainBalance
  /\ UNCHANGED <<transferVars, walletVars, sessionVars>>

\* What the chain charges for the transaction of call p.
Charge(p) == proc[p].amount + proc[p].feeValue

\* Lines 89-113: the chain processes the transaction of call p; sendSOL returns the
\* signature, or throws what the rejection is turned into.
RaceSendSettled(p) ==
  /\ proc[p].pc = "sendAndConfirmTransaction"
  /\ IF Charge(p) <= chainBalance
       THEN /\ chainBalance' = chainBalance - Charge(p)
            /\ proc' = [proc EXCEPT ![p] = ProcDone(p, "returned")]
       ELSE /\ chainBalance' = chainBalance
            /\ proc' = [proc EXCEPT ![p] = ProcDone(p, "TransactionFailed")]
  /\ UNCHANGED <<transferVars, walletVars, sessionVars>>

\* The steps of call p.
RaceStep(p) ==
  \/ \E a \in Amounts : RaceSendSOL(p, a)
  \/ \E info \in RaceAccountInfos : RaceAccountInfoReply(p, info)
  \/ RaceBalanceReply(p)
  \/ RaceEstimateBlockhashReply(p)
  \/ \E v \in RaceFeeValues : RaceFeeReply(p, v)
  \/ RaceBlockhashReply(p)
  \/ RaceSendSettled(p)

RaceNext ==
  \/ \E b \in 1..MaxBalance : AccountFunded(b)
  \/ \E p \in Procs : RaceStep(p)

RaceSpec == Init /\ [][RaceNext]_vars

(***************************************************************************)
(* Properties of sendSOL.                                                  *)
(***************************************************************************)
FeeAnswered == feeValue /= FeeNotAsked

\* The fee of the estimate in lamports: the answered value, 0 when unavailable.
FeeLamports == IF feeValue \in {FeeUnavailable, FeeNotAsked} THEN 0 ELSE feeValue

InCalls(req) == \E k \in 1..Len(calls) : calls[k] = req

TimesCalled(req) == Cardinality({k \in 1..Len(calls) : calls[k] = req})

NonSignerAnswer == senderAccountInfo.exists /\ senderAccountInfo.owner /= SystemProgramId

\* C1: when the balance read by the call is less than the amount plus the estimated
\* fee, in whole lamports, the call fails with the insufficient-balance error and
\* the transaction is never signed or submitted; submission is reached only with
\* balance >= amount + fee.
C1_InsufficientBalanceNeverSubmitted ==
  /\ (FeeAnswered /\ senderBalance < amount + FeeLamports) =>
       /\ pc = "done"
       /\ outcome.kind = "thrown"
       /\ outcome.name = "InsufficientBalance"
       /\ ~signed
       /\ submitCount = 0
       /\ ~InCalls("sendAndConfirmTransaction")
  /\ (signed \/ submitCount > 0 \/ InCalls("sendAndConfirmTransaction")) =>
       (FeeAnswered /\ senderBalance >= amount + FeeLamports)

\* C1 witness: a call refused for a balance below amount + fee, with a fee above 0.
C1_Witness ==
  /\ pc = "done"
  /\ outcome.name = "InsufficientBalance"
  /\ FeeLamports > 0
  /\ senderBalance >= amount
  /\ senderBalance < amount + FeeLamports

\* C2: a sender account that exists and is owned by another program than the system
\* program makes the call fail with the non-signer error and nothing follows: no
\* balance query, no fee estimate, no blockhash fetch, no signing, no submission.
C2_NonSignerStopsTheCall ==
  NonSignerAnswer =>
    /\ pc = "done"
    /\ outcome.kind = "thrown"
    /\ outcome.name = "InvalidSenderAccount"
    /\ calls = <<"getAccountInfo">>
    /\ pending = {}
    /\ ~FeeAnswered
    /\ txBlockhash = NoBlockhash
    /\ ~signed
    /\ submitCount = 0

\* C2 witness: the call ended with the non-signer error for a token-owned account.
C2_Witness ==
  /\ pc = "done"
  /\ outcome.name = "InvalidSenderAccount"
  /\ senderAccountInfo.owner = TokenProgramId

\* C3: the balance that is compared comes from a balance query issued immediately
\* before signing: the request that precedes the submission is getBalance, no fee
\* estimation or blockhash fetch lies between them.
C3_BalanceQueriedJustBeforeSigning ==
  \A k \in 1..Len(calls) :
    calls[k] = "sendAndConfirmTransaction" => (k > 1 /\ calls[k - 1] = "getBalance")

\* C4: whenever a transaction is submitted, the blockhash bound into it is the
\* blockhash the fee estimate in use was computed against.
C4_EstimateBoundToSubmittedBlockhash ==
  submitCount > 0 => txBlockhash = estBlockhash

\* The step of the pipeline a request belongs to: classify, estimate, balance check,
\* sign, submit and confirm.
StepOf(req) ==
  CASE req = "getAccountInfo" -> 1
    [] req \in {"estimate.getLatestBlockhash", "getFeeForMessage"} -> 2
    [] req = "getBalance" -> 3
    [] req = "getLatestBlockhash" -> 4
    [] req = "sendAndConfirmTransaction" -> 5
    [] OTHER -> 6

\* C5: a transfer is strictly sequential: at most one request is outstanding, a
\* request is issued only when no other is in flight, and the round trips occur in
\* the order classify, estimate fee, balance check, sign, submit, confirm.
C5_SequentialInOrder ==
  /\ Cardinality(pending) <= 1
  /\ \A j, k \in 1..Len(calls) : j < k => StepOf(calls[j]) <= StepOf(calls[k])

ConfirmedOutcome ==
  /\ outcome.kind = "returned"
  /\ outcome.signature = SignatureOf(amount, txBlockhash)
  /\ collab.result = "confirmed"

RejectedOutcome ==
  /\ outcome.kind = "thrown"
  /\ outcome.name = "TransactionFailed"
  /\ collab.result = "rejected"

UnknownOutcome ==
  /\ outcome.kind = "thrown"
  /\ outcome.name \in {TimeoutError, NetworkError}

ExactlyOneOutcome ==
  \/ ConfirmedOutcome /\ ~RejectedOutcome /\ ~UnknownOutcome
  \/ ~ConfirmedOutcome /\ RejectedOutcome /\ ~UnknownOutcome
  \/ ~ConfirmedOutcome /\ ~RejectedOutcome /\ UnknownOutcome

\* C6: a call that reached submission ends in exactly one of Confirmed (the
\* signature is returned), Rejected (an error with the logs) or unknown (another
\* error); the call is over when the outcome is produced, and from then on nothing
\* of the transfer changes: no further submission, retry or state change.
C6_OneFinalOutcome ==
  [][/\ (outcome.kind /= "none" => UNCHANGED transferVars)
     /\ (outcome'.kind /= "none" <=> pc' = "done")
     /\ (outcome'.kind /= "none" /\ submitCount' > 0 =>
           ExactlyOneOutcome' /\ submitCount' = 1 /\ pending' = {})]_vars

\* C6 witness: a submitted transfer ended Rejected.
C6_Witness == pc = "done" /\ submitCount = 1 /\ RejectedOutcome

\* C7: the collaborator uses at most 3 attempts; a confirmation on one of them gives
\* Confirmed(signature); no confirmation within 3 attempts gives the timeout error,
\* which is neither Rejected nor Confirmed, and the caller can tell the two apart:
\* the timeout error is only raised for a timeout, the rejection error only for a
\* rejection.
C7_BoundedConfirmation ==
  /\ attempts <= 3
  /\ collab.result = "confirmed" => (pc = "done" /\ ConfirmedOutcome)
  /\ collab.result = "timeout" =>
       /\ attempts = 3
       /\ pc = "done"
       /\ outcome.kind = "thrown"
       /\ outcome.name = TimeoutError
       /\ ~RejectedOutcome
       /\ ~ConfirmedOutcome
  /\ outcome.name = TimeoutError => collab.result = "timeout"
  /\ outcome.name = "TransactionFailed" => collab.result = "rejected"
  /\ (pc = "sendAndConfirmTransaction" /\ attempts = 3) => FALSE

\* C7 witness: the collaborator never confirmed within its 3 attempts.
C7_Witness ==
  /\ pc = "done"
  /\ attempts = 3
  /\ collab.result = "timeout"
  /\ outcome.name = TimeoutError

\* C8: whenever the collaborator reports an execution failure, the error sendSOL
\* raises carries the rejection reason and every log line the collaborator supplied
\* (whenever the supplied lines hold any text), in order and unmodified, also when
\* the logs have to be fetched.
C8_RejectionCarriesLogs ==
  (pc = "done" /\ collab.result = "rejected") =>
    /\ outcome.kind = "thrown"
    /\ outcome.name = "TransactionFailed"
    /\ outcome.reason = collab.reason
    /\ JoinLines(collab.logs) /= "" => outcome.logs = JoinLines(collab.logs)

\* C9: within one call the transaction is handed to the collaborator at most once,
\* only after the sender classification and the balance check have passed, and a
\* failed or timed-out submission is not resubmitted.
C9_SubmittedAtMostOnce ==
  /\ submitCount <= 1
  /\ TimesCalled("sendAndConfirmTransaction") = submitCount
  /\ submitCount > 0 =>
       /\ InCalls("getAccountInfo")
       /\ ~NonSignerAnswer
       /\ InCalls("getBalance")
       /\ FeeAnswered
       /\ senderBalance >= amount + FeeLamports

\* C9 witness: a submission failed and the call ended with one submission.
C9_Witness ==
  /\ pc = "done"
  /\ submitCount = 1
  /\ collab.result = "unavailable"
  /\ outcome.name = NetworkError

(***************************************************************************)
(* Properties of the WalletManager constructor.                            *)
(***************************************************************************)
ConstructionSucceeded == ctor \in {"constructed", "true"}

\* The argument is a base-58 text of exactly 64 bytes.
DecodesToKeyLength(input) ==
  /\ input.family = "base58"
  /\ \A k \in 1..Len(input.tail) : input.tail[k] /= InvalidChar
  /\ input.ones + ByteLength(TailValue(input.tail)) = 64

\* The argument is the text of a JSON array of exactly 64 elements.
ParsesAsArrayOfKeyLength(input) == input.family = "json" /\ input.elems = 64

\* C10 as stated: construction succeeds if and only if the string decodes as base-58
\* to exactly 64 bytes or parses as an array of exactly 64 integers; every other
\* input fails with the invalid-key-format error and leaves no identity.
C10_SucceedsIffWellFormed ==
  ctor /= NoCtor =>
    /\ ConstructionSucceeded <=>
         \/ DecodesToKeyLength(keyInput)
         \/ ParsesAsArrayOfKeyLength(keyInput) /\ keyInput.integers
    /\ ~ConstructionSucceeded =>
         (ctor \in {"InvalidKeyFormat", "false"} /\ keypair = NoKeypair)

\* C10 amended: construction succeeds if and only if the string decodes as base-58
\* to exactly 64 bytes that Keypair.fromSecretKey accepts, or else parses as a JSON
\* array of exactly 64 elements (integers or not) whose bytes Keypair.fromSecretKey
\* accepts; both are tried before failing; every other input fails with the
\* invalid-key-format error and leaves no identity.
C10_SucceedsIffAcceptedKey ==
  ctor /= NoCtor =>
    /\ ConstructionSucceeded <=>
         /\ DecodesToKeyLength(keyInput) \/ ParsesAsArrayOfKeyLength(keyInput)
         /\ keyInput.consistent
    /\ ctor = "constructed" => keypair.present
    /\ ~ConstructionSucceeded =>
         (ctor \in {"InvalidKeyFormat", "false"} /\ keypair = NoKeypair)

\* C10 witness: the base-58 attempt failed and the array attempt built the identity.
C10_Witness ==
  /\ ctor = "constructed"
  /\ keypair.from = "array"
  /\ keyInput.family = "json"

(***************************************************************************)
(* Properties of the arithmetic of sendSOL.                                *)
(***************************************************************************)
\* The quantities the insufficient-balance message prints (lines 64-68: the
\* balance, the required total, the amount and the fee, each in SOL), as lamports.
ReportedLamports == {outcome.have, outcome.need.i, amount, FeeLamports}

\* C13: the sufficiency check is exact integer arithmetic in lamports: the transfer
\* proceeds if and only if amount + fee <= balance, and a refusal carries the exact
\* shortfall amount + fee - balance.
C13_ExactCheckAndShortfall ==
  FeeAnswered =>
    /\ outcome.name /= "InsufficientBalance" <=> amount + FeeLamports <= senderBalance
    /\ outcome.name = "InsufficientBalance" =>
         (amount + FeeLamports - senderBalance) \in ReportedLamports

\* C17: when getFeeForMessage answers null, the estimate is 0 and not an error, and
\* the check is made with fee 0: the call is refused only for balance < amount;
\* with balance >= amount it goes on to fetch the blockhash, and signs and submits
\* once that is answered.
C17_UnavailableFeeCountsAsZero ==
  feeValue = FeeUnavailable =>
    /\ estimatedFee = LamportsToSol(0)
    /\ totalRequired = lamports
    /\ senderBalance < amount =>
         (pc = "done" /\ outcome.name = "InsufficientBalance" /\ submitCount = 0)
    /\ senderBalance >= amount =>
         /\ outcome.name /= "InsufficientBalance"
         /\ InCalls("getLatestBlockhash")
         /\ txBlockhash /= NoBlockhash => (signed /\ submitCount = 1)

\* C17 witness: a transfer submitted with the fee unavailable and balance = amount.
C17_Witness ==
  /\ feeValue = FeeUnavailable
  /\ senderBalance = amount
  /\ signed
  /\ submitCount = 1

(***************************************************************************)
(* Properties of the front end.                                            *)
(***************************************************************************)
\* The interactive session is over: mainMenu returned or the process exited.
SessionOver == mode = "interactive" /\ spc \in {"returned", "exited"}

\* C11: no error ends the interactive session, at start-up or from the menu: the
\* session is over only when the user has chosen Exit.
C11_SessionEndsOnlyOnExit == SessionOver => (spc = "exited" /\ choice = "exit")

\* sendSOL has classified the answer of its getAccountInfo.
SenderClassified == InCalls("getBalance") \/ outcome.name = "InvalidSenderAccount"

\* C12: validateForTransactions and the check of sendSOL are the same function of
\* the account-info answer: an absent account and a system-owned account are
\* usable, an account of any other owner is refused, and the two never disagree.
C12_SameClassification ==
  /\ \A info \in AccountInfos :
       ValidateForTransactionsThrows(info) <=> IsNonSigner(info)
  /\ validation.result \in {"passed", "refused"} =>
       (validation.result = "refused" <=>
          (validation.info.exists /\ validation.info.owner /= SystemProgramId))
  /\ SenderClassified =>
       (outcome.name = "InvalidSenderAccount" <=>
          (senderAccountInfo.exists /\ senderAccountInfo.owner /= SystemProgramId))
  /\ (validation.result \in {"passed", "refused"} /\ SenderClassified
        /\ validation.info = senderAccountInfo) =>
       (validation.result = "refused" <=> outcome.name = "InvalidSenderAccount")

\* C12 witness: the import and a later sendSOL were given the same system-owned
\* answer and both accepted it.
C12_Witness ==
  /\ validation.result = "passed"
  /\ validation.info.exists
  /\ SenderClassified
  /\ senderAccountInfo = validation.info
  /\ pc = "getBalance"

\* C14: on both front-end paths sendSOL is invoked only with an amount that is a
\* number greater than 0 and a well-formed recipient; any other input is rejected
\* before any network call.
C14_SendSOLOnlyWithValidInput ==
  /\ pc /= "idle" =>
       /\ amount = amountIn
       /\ amount /= NotANumber
       /\ amount > 0
       /\ ValidatePublicKey(recipient)
  /\ (mode = "command" /\ spc = "finished" /\ pc = "idle") =>
       (pending = {} /\ calls = <<>>)

\* The last importWallet call has completed.
ImportCompleted == mode = "interactive" /\ ctor /= NoCtor /\ spc /= "validating"

\* C16: after every completion of importWallet the session wallet is non-null if
\* and only if that import's key parsed and its validation query was answered with
\* an absent or system-owned account; any failure leaves it null, whatever was
\* imported before; and with a null wallet Show Balance and Send SOL return to the
\* menu without a network call.
C16_WalletIffImportSucceeded ==
  /\ ImportCompleted =>
       (wallet.present <=> (ctor = "constructed" /\ validation.result = "passed"))
  /\ (ImportCompleted /\ wallet.present) =>
       /\ wallet = keypair
       /\ ~validation.info.exists \/ validation.info.owner = SystemProgramId
  /\ (mode = "interactive" /\ ~wallet.present) =>
       /\ spc \in {"keyPrompt", "menu", "returned", "exited"}
       /\ pending = {}
       /\ calls = <<>>
       /\ pc = "idle"

\* C16 witness: a failed Switch Wallet left the session without a wallet (the menu
\* is reached only with one), and Show Balance was chosen then.
C16_Witness ==
  /\ mode = "interactive"
  /\ ~wallet.present
  /\ choice = "balance"
  /\ spc = "menu"

(***************************************************************************)
(* Properties of two concurrent sendSOL calls.                             *)
(***************************************************************************)
\* Call p has handed its transaction to sendAndConfirmTransaction.
Submitted(p) ==
  \/ proc[p].pc = "sendAndConfirmTransaction"
  \/ proc[p].result \in {"returned", "TransactionFailed"}

\* C15: two sendSOL calls of one sender are not coordinated: no step of a call is
\* blocked by the other call, whatever its position, and a call is submitted on
\* the strength of the balance it read itself, whatever the other call has read or
\* submitted; so both can read the same balance, pass the check and submit
\* although the balance does not cover the two required totals.
C15_CallsNotCoordinated ==
  \A p \in Procs :
    /\ proc[p].pc /= "done" => ENABLED RaceStep(p)
    /\ Submitted(p) => ~IsInsufficient(proc[p].balance, proc[p].totalRequired)

\* C15 witness: both calls read the same balance, passed the check and submitted,
\* and that balance is less than the sum of their required totals.
C15_Witness ==
  /\ \A p \in Procs : proc[p].pc = "sendAndConfirmTransaction"
  /\ proc[1].balance = proc[2].balance
  /\ proc[1].balance = chainBalance
  /\ proc[1].balance < Charge(1) + Charge(2)

====
